---------------------------- MODULE Spec2Model ----------------------------
(***************************************************************************)
(* Player behaviour / animation state machine of tacticaltwo-game.         *)
(*                                                                         *)
(* Two iterations of the subsystem are modelled side by side; `variant`    *)
(* says which one is linked into the game library:                         *)
(*   "cursor"    - game/world.c: sys_update_player_state followed by the   *)
(*                 switch-based stackless handlers anim_state_* that keep  *)
(*                 their position in ps->coroutine_state (game/coro.h);    *)
(*   "coroutine" - game/systems/animation_system.c: one stackful coroutine *)
(*                 (player_behavior_fn) that writes ps->current itself.    *)
(*                                                                         *)
(* One frame runs the systems one after the other; `pc` names the system   *)
(* that runs next.  The sprite library, the keyboard and the mouse are the *)
(* environment: what they report is drawn with \E.                         *)
(***************************************************************************)
EXTENDS Integers, FiniteSets, Sequences, TLC

VARIABLES
  variant,          \* which iteration of the subsystem is built
  counter_base,     \* value of __COUNTER__ at the first coro_yield of world.c
  library,          \* host side: "loaded" | "unloaded" (GameLibrary.ok)
  state_ptr,        \* game.c: the library's static `state` pointer, "heap" | "null"
  pc,               \* next system of the frame: input/state/movement/physics/animation/render
  input,            \* C_PlayerInput
  current,          \* C_PlayerState.current
  previous,         \* C_PlayerState.previous
  state_timer,      \* C_PlayerState.state_timer, in units of dt
  coroutine_state,  \* C_PlayerState.coroutine_state (the resume cursor)
  co,               \* C_PlayerState.co: where the stackful coroutine is suspended
  velocity,         \* C_Velocity
  facing,           \* C_PlayerController.facing_direction.x
  position,         \* C_Transform.position
  clip,             \* sprite: name of the animation being played
  frame,            \* sprite: frame index of GunWalkFire while it plays, else 0
  scale_x,          \* sprite: scale.x (horizontal flip)
  \* ---- history of the run, kept for the properties ----
  will_finish,      \* what cf_sprite_will_finish answers during this frame's dispatch
  played,           \* clips handed to cf_sprite_play by the last dispatch, in order
  finish_checked,   \* the last dispatch evaluated a finish condition
  anim_changed,     \* the last dispatch left ps->current different from what it found
  ran,              \* update_world has completed at least once
  eot_current,      \* current at the end of the previous frame
  eot_timer,        \* state_timer at the end of the previous frame
  reload_pending,   \* the library was swapped and the animation process has not run since
  \* ---- beyond the one player that init_world creates ----
  other,            \* components of a second entity with the full component set, if any
  ctx,              \* context of a coroutine written with engine/coro.h, if any
  asset,            \* a call of asset_load_sprite and what it returned, if any
  lib               \* host side of the hot reload: the library file and GameLibrary

vars == <<variant, counter_base, library, state_ptr, pc, input, current, previous,
          state_timer, coroutine_state, co, velocity, facing, position,
          clip, frame, scale_x, will_finish, played, finish_checked,
          anim_changed, ran, eot_current, eot_timer, reload_pending,
          other, ctx, asset, lib>>

\* everything but the engine/coro.h context
world_vars == <<variant, counter_base, library, state_ptr, pc, input, current,
                previous, state_timer, coroutine_state, co, velocity, facing,
                position, clip, frame, scale_x, will_finish, played,
                finish_checked, anim_changed, ran, eot_current, eot_timer,
                reload_pending, other>>

---------------------------------------------------------------------------
\* Bounds of the model

\* frames a state may last before the model stops counting state_timer
MaxTimer == 2
\* values __COUNTER__ may have at the first coro_yield of world.c: 0 when no
\* header included before it expands the macro, and a value that is not 0
CounterBases == {0, 1}
\* |position.x| is followed up to this many walked frames
MaxSteps == 1

---------------------------------------------------------------------------
\* Program constants

\* fixed timestep handed to update_world, as the unit of state_timer
Dt == 1
WalkSpeed == 150
GUNWALKFIRE_SINGLE_SHOT_STOP_FRAME == 3
\* frames of the GunWalkFire clip
GunWalkFireFrames == 8

PLAYER_STATE_IDLE == "Idle"
PLAYER_STATE_WALKING == "Walking"
PLAYER_STATE_CROUCHING == "Crouching"
PLAYER_STATE_CROUCH_WALKING == "CrouchWalking"
PLAYER_STATE_FIRING == "Firing"
PLAYER_STATE_CROUCH_FIRING == "CrouchFiring"
PLAYER_STATE_RELOADING == "Reloading"

\* the enumerator that closes the enumeration: not one of the states
PLAYER_STATE_COUNT == "Count"

PlayerState == {PLAYER_STATE_IDLE, PLAYER_STATE_WALKING, PLAYER_STATE_CROUCHING,
                PLAYER_STATE_CROUCH_WALKING, PLAYER_STATE_FIRING,
                PLAYER_STATE_CROUCH_FIRING, PLAYER_STATE_RELOADING}

\* the states sys_update_player_state does not re-evaluate
Locking == {PLAYER_STATE_RELOADING, PLAYER_STATE_FIRING, PLAYER_STATE_CROUCH_FIRING}

Clips == {"GunAim", "GunWalk", "GunCrouch", "GunFire", "GunWalkFire",
          "GunCrouchFire", "GunReload"}

C_PlayerInput == [up : BOOLEAN, down : BOOLEAN, left : BOOLEAN, right : BOOLEAN,
                  crouch : BOOLEAN, shoot : BOOLEAN, reload : BOOLEAN]

\* what the keyboard and the mouse can report at one poll: the keys that are
\* held, and whether the button / the key R went down since the last poll
Device == [up : BOOLEAN, down : BOOLEAN, left : BOOLEAN, right : BOOLEAN,
           crouch : BOOLEAN, mouse_pressed : BOOLEAN, r_pressed : BOOLEAN]

\* init_world creates one entity, and no coroutine of engine/coro.h exists
NoOther == [kind |-> "none"]
NoContext == [kind |-> "none"]
\* the frame loop loads no sprite file, and the library swap is seen as the
\* single step hot_reload
NoAsset == [kind |-> "none"]
NoLibrary == [kind |-> "none"]

---------------------------------------------------------------------------
\* make_player / init_world: the state after construction

\* update_world with the order of physics and animation exchanged
Pipeline_AnimationBeforePhysics ==
  IF variant = "cursor"
    THEN <<"input", "state", "movement", "animation", "physics", "render">>
    ELSE <<"input", "movement", "animation", "physics", "render">>

\* the systems of one frame in the order update_world runs them, followed by
\* the render call of the host loop
Pipeline ==
  IF variant = "cursor"
    THEN <<"input", "state", "movement", "physics", "animation", "render">>
    ELSE <<"input", "movement", "physics", "animation", "render">>

\* the system that runs after system p
NextSystem(p) ==
  LET i == CHOOSE j \in 1..Len(Pipeline) : Pipeline[j] = p
  IN IF i = Len(Pipeline) THEN Pipeline[1] ELSE Pipeline[i + 1]

Init ==
  /\ asset = NoAsset
  /\ lib = NoLibrary
  /\ variant \in {"cursor", "coroutine"}
  /\ counter_base \in (IF variant = "cursor" THEN CounterBases ELSE {0})
  /\ library = "loaded"
  /\ state_ptr = "heap"
  /\ pc = "input"
  /\ input = [up |-> FALSE, down |-> FALSE, left |-> FALSE, right |-> FALSE,
              crouch |-> FALSE, shoot |-> FALSE, reload |-> FALSE]
  /\ current = PLAYER_STATE_IDLE
  /\ previous = PLAYER_STATE_IDLE
  /\ state_timer = 0
  /\ coroutine_state = 0
  /\ co = "null"
  /\ velocity = [x |-> 0, y |-> 0]
  /\ facing = 1
  /\ position = [x |-> 0, y |-> 0]
  /\ clip = "GunWalk"
  /\ frame = 0
  /\ scale_x = 1
  /\ will_finish = FALSE
  /\ played = <<>>
  /\ finish_checked = FALSE
  /\ anim_changed = FALSE
  /\ ran = FALSE
  /\ eot_current = PLAYER_STATE_IDLE
  /\ eot_timer = 0
  /\ reload_pending = FALSE
  /\ other = NoOther
  /\ ctx = NoContext

---------------------------------------------------------------------------
\* System: gather input

\* PollInput with shoot and reload reported for as long as the button is down
PollInput_Level(d, last) ==
  [up |-> d.up, down |-> d.down, left |-> d.left, right |-> d.right,
   crouch |-> d.crouch, shoot |-> d.mouse_pressed, reload |-> d.r_pressed]

\* cf_key_down / cf_mouse_just_pressed / cf_key_just_pressed on device report d.
\* A press edge needs the button up at the poll before: it is not reported on
\* two polls in a row.
PollInput(d, last) ==
  [up |-> d.up, down |-> d.down, left |-> d.left, right |-> d.right,
   crouch |-> d.crouch,
   shoot |-> d.mouse_pressed /\ ~last.shoot,
   reload |-> d.r_pressed /\ ~last.reload]

sys_gather_input ==
  /\ pc = "input"
  /\ library = "loaded"
  /\ state_timer < MaxTimer
  /\ \E d \in Device : input' = PollInput(d, input)
  /\ pc' = NextSystem(pc)
  /\ eot_current' = current
  /\ eot_timer' = state_timer
  /\ UNCHANGED <<asset, lib, other, ctx, variant, counter_base, library, state_ptr, current, previous,
                 state_timer, coroutine_state, co, velocity, facing,
                 position, clip, frame, scale_x, will_finish, played,
                 finish_checked, anim_changed, ran, reload_pending>>

---------------------------------------------------------------------------
\* System: update player state (world.c)

\* NextState with a crouch-walk rule
NextState_CrouchWalking(in) ==
  IF in.shoot /\ in.crouch THEN PLAYER_STATE_CROUCH_FIRING
  ELSE IF in.shoot THEN PLAYER_STATE_FIRING
  ELSE IF in.reload THEN PLAYER_STATE_RELOADING
  ELSE IF in.crouch /\ (in.left \/ in.right) THEN PLAYER_STATE_CROUCH_WALKING
  ELSE IF in.crouch THEN PLAYER_STATE_CROUCHING
  ELSE IF in.left \/ in.right THEN PLAYER_STATE_WALKING
  ELSE PLAYER_STATE_IDLE

\* NextState with reload tested before shoot
NextState_ReloadFirst(in) ==
  IF in.reload THEN PLAYER_STATE_RELOADING
  ELSE IF in.shoot /\ in.crouch THEN PLAYER_STATE_CROUCH_FIRING
  ELSE IF in.shoot THEN PLAYER_STATE_FIRING
  ELSE IF in.crouch THEN PLAYER_STATE_CROUCHING
  ELSE IF in.left \/ in.right THEN PLAYER_STATE_WALKING
  ELSE PLAYER_STATE_IDLE

\* the input priority chain
NextState(in) ==
  IF in.shoot /\ in.crouch THEN PLAYER_STATE_CROUCH_FIRING
  ELSE IF in.shoot THEN PLAYER_STATE_FIRING
  ELSE IF in.reload THEN PLAYER_STATE_RELOADING
  ELSE IF in.crouch THEN PLAYER_STATE_CROUCHING
  ELSE IF in.left \/ in.right THEN PLAYER_STATE_WALKING
  ELSE PLAYER_STATE_IDLE

\* IsLocked that lets Firing be re-evaluated
IsLocked_NoFiring(s) ==
  s \in {PLAYER_STATE_RELOADING, PLAYER_STATE_CROUCH_FIRING}

\* IsLocked without the Reloading test
IsLocked_NoReloading(s) ==
  s = PLAYER_STATE_FIRING \/ s = PLAYER_STATE_CROUCH_FIRING

\* the lock test
IsLocked(s) ==
  s = PLAYER_STATE_RELOADING \/ s = PLAYER_STATE_FIRING \/ s = PLAYER_STATE_CROUCH_FIRING

\* CursorAfterStateStep without the reset
CursorAfterStateStep_NoReset(cur, prev, cursor) == cursor

\* the cursor after the state step: reset on a change of state
CursorAfterStateStep(cur, prev, cursor) ==
  IF cur # prev THEN 0 ELSE cursor

\* TimerAfterStateStep without the reset
TimerAfterStateStep_NoReset(cur, prev, timer) == timer + Dt

\* state_timer after the state step
TimerAfterStateStep(cur, prev, timer) ==
  IF cur # prev THEN 0 ELSE timer + Dt

\* PreviousAfterStateStep that keeps the old value
PreviousAfterStateStep_Keep(cur, prev) == prev

\* previous after the state step: the state the step found
PreviousAfterStateStep(cur, prev) == cur

\* the same system body for the second entity of the array, whose
\* C_PlayerInput holds what sys_gather_input wrote into every entity
OtherAfterStateStep(o, in) ==
  IF o.kind = "none" \/ IsLocked(o.current) THEN o
  ELSE [o EXCEPT !.current = NextState(in),
                 !.coroutine_state =
                   CursorAfterStateStep(NextState(in), o.current, o.coroutine_state)]

sys_update_player_state ==
  /\ pc = "state"
  /\ previous' = PreviousAfterStateStep(current, previous)
  /\ IF IsLocked(current)
       THEN /\ state_timer' = state_timer + Dt
            /\ UNCHANGED <<current, coroutine_state>>
       ELSE /\ current' = NextState(input)
            /\ state_timer' = TimerAfterStateStep(NextState(input), current, state_timer)
            /\ coroutine_state' =
                 CursorAfterStateStep(NextState(input), current, coroutine_state)
  /\ other' = OtherAfterStateStep(other, input)
  /\ pc' = NextSystem(pc)
  /\ UNCHANGED <<asset, lib, ctx, variant, counter_base, library, state_ptr, input, co, velocity,
                 facing, position, clip, frame, scale_x, will_finish,
                 played, finish_checked, anim_changed, ran, eot_current,
                 eot_timer, reload_pending>>

---------------------------------------------------------------------------
\* System: update player movement

\* VelocityFor that lets the player move while crouching
VelocityFor_NoCrouchStop(cur, in) ==
  [x |-> (IF in.right THEN WalkSpeed ELSE 0) - (IF in.left THEN WalkSpeed ELSE 0),
   y |-> 0]

\* velocity after the movement step
VelocityFor(cur, in) ==
  IF cur = PLAYER_STATE_CROUCHING \/ cur = PLAYER_STATE_CROUCH_FIRING
    THEN [x |-> 0, y |-> 0]
    ELSE [x |-> (IF in.right THEN WalkSpeed ELSE 0) - (IF in.left THEN WalkSpeed ELSE 0),
          y |-> 0]

FacingFor(in, old) ==
  IF in.right /\ ~in.left THEN 1
  ELSE IF in.left /\ ~in.right THEN -1
  ELSE old

sys_update_player_movement ==
  /\ pc = "movement"
  /\ velocity' = VelocityFor(current, input)
  /\ facing' = FacingFor(input, facing)
  /\ pc' = NextSystem(pc)
  /\ UNCHANGED <<asset, lib, other, ctx, variant, counter_base, library, state_ptr, input, current, previous,
                 state_timer, coroutine_state, co, position, clip, frame,
                 scale_x, will_finish, played, finish_checked, anim_changed,
                 ran, eot_current, eot_timer, reload_pending>>

---------------------------------------------------------------------------
\* System: apply velocity

\* Integrate with the velocity subtracted
Integrate_Backwards(pos, vel) ==
  [x |-> pos.x - vel.x * Dt, y |-> pos.y - vel.y * Dt]

Integrate(pos, vel) ==
  [x |-> pos.x + vel.x * Dt, y |-> pos.y + vel.y * Dt]

Abs(n) == IF n < 0 THEN -n ELSE n

sys_apply_velocity ==
  /\ pc = "physics"
  /\ Abs(Integrate(position, velocity).x) <= MaxSteps * WalkSpeed
  /\ position' = Integrate(position, velocity)
  /\ pc' = NextSystem(pc)
  /\ UNCHANGED <<asset, lib, other, ctx, variant, counter_base, library, state_ptr, input, current, previous,
                 state_timer, coroutine_state, co, velocity, facing, clip,
                 frame, scale_x, will_finish, played, finish_checked,
                 anim_changed, ran, eot_current, eot_timer, reload_pending>>

---------------------------------------------------------------------------
\* Sprite library, as the handlers use it.  A handler works on a record e:
\* the fields of C_PlayerState and of the sprite it may touch, plus the two
\* observations played / finish_checked.

Entity ==
  [current |-> current, state_timer |-> state_timer,
   coroutine_state |-> coroutine_state, clip |-> clip, frame |-> frame,
   played |-> <<>>, finish_checked |-> FALSE]

cf_sprite_is_playing(e, name) == e.clip = name

\* starts the clip from its first frame
cf_sprite_play(e, name) ==
  [e EXCEPT !.clip = name, !.frame = 0, !.played = Append(e.played, name)]

cf_sprite_current_frame(e) == e.frame

\* cf_sprite_update run twice
cf_sprite_update_Twice(name, f, adv) ==
  IF name # "GunWalkFire" THEN 0
  ELSE IF ~adv THEN f
  ELSE (f + 2) % GunWalkFireFrames

\* cf_sprite_update on a sprite showing frame f of clip `name`: the frame
\* stays or moves on, and the clip loops.  Only GunWalkFire's index is read
\* by the game, so only that one is followed.
cf_sprite_update(name, f, adv) ==
  IF name # "GunWalkFire" THEN 0
  ELSE IF ~adv THEN f
  ELSE IF f + 1 >= GunWalkFireFrames THEN 0 ELSE f + 1

\* clips that are played once
OneShotClips == {"GunFire", "GunWalkFire", "GunCrouchFire", "GunReload"}

\* the answer of cf_sprite_will_finish that is kept for observation: the one
\* about a one-shot clip that plays before or after the dispatch (a looping
\* clip is never asked)
Reported(wf, before, after) ==
  wf /\ (before \in OneShotClips \/ after \in OneShotClips)

---------------------------------------------------------------------------
\* game/coro.h.  The k-th coro_yield of world.c (k = 0..8, in file order)
\* expands __COUNTER__ twice: once for the value it stores in the cursor and
\* once more for the case label it places.

\* state_var = __COUNTER__
YieldValue(k) == counter_base + 2 * k

\* case __COUNTER__:
YieldLabel(k) == counter_base + 2 * k + 1

\* coro_yield(state_var): store the resume value and return
coro_yield(e, k) == [e EXCEPT !.coroutine_state = YieldValue(k)]

\* coro_end(state_var): state_var = -1 and return
coro_end(e) == [e EXCEPT !.coroutine_state = -1]

---------------------------------------------------------------------------
\* Animation state handlers (world.c).  Each is a switch on the cursor: case 0
\* is the top, the YieldLabel cases are the resume points, and a cursor that
\* matches no case skips the whole body.

\* LoopingHandler that plays its clip on every pass through the top
LoopingHandler_AlwaysPlay(e, name, k) ==
  IF e.coroutine_state = 0
    THEN coro_yield(cf_sprite_play(e, name), k)
  ELSE IF e.coroutine_state = YieldLabel(k)
    THEN coro_yield(e, k)
  ELSE e

\* the body of a looping handler: play the clip unless it plays, then park
LoopingHandler(e, name, k) ==
  IF e.coroutine_state = 0
    THEN coro_yield(IF ~cf_sprite_is_playing(e, name)
                      THEN cf_sprite_play(e, name) ELSE e, k)
  ELSE IF e.coroutine_state = YieldLabel(k)
    THEN coro_yield(e, k)
  ELSE e

anim_state_idle(e) == LoopingHandler(e, "GunAim", 0)

anim_state_walking(e) == LoopingHandler(e, "GunWalk", 1)

\* anim_state_crouching that shows the aiming clip
anim_state_crouching_Aim(e) == LoopingHandler(e, "GunAim", 2)

anim_state_crouching(e) == LoopingHandler(e, "GunCrouch", 2)

\* FireClip that never picks the walking clip
FireClip_AlwaysGunFire(vel) == "GunFire"

\* the clip a Firing episode starts
FireClip(vel) == IF vel.x # 0 THEN "GunWalkFire" ELSE "GunFire"

\* entry of anim_state_firing, up to its first yield
FiringEntry(e, vel) ==
  coro_yield(IF ~cf_sprite_is_playing(e, "GunFire") /\
                ~cf_sprite_is_playing(e, "GunWalkFire")
               THEN cf_sprite_play(e, FireClip(vel)) ELSE e, 3)

\* the wait loop of anim_state_firing, from its condition to the next return.
\* The coro_end inside `if (should_finish)` is read as written: end the
\* coroutine there (cursor -1, return).
FiringWait(e, wf) ==
  IF e.state_timer > 0
    THEN LET should_finish ==
               IF cf_sprite_is_playing(e, "GunWalkFire")
                 THEN cf_sprite_current_frame(e) >= GUNWALKFIRE_SINGLE_SHOT_STOP_FRAME
                 ELSE wf
             e1 == [e EXCEPT !.finish_checked = TRUE]
         IN IF should_finish
              THEN coro_end([e1 EXCEPT !.current = PLAYER_STATE_IDLE])
              ELSE coro_yield(e1, 4)
    ELSE coro_end(e)

anim_state_firing(e, vel, wf) ==
  IF e.coroutine_state = 0 THEN FiringEntry(e, vel)
  ELSE IF e.coroutine_state = YieldLabel(3) \/ e.coroutine_state = YieldLabel(4)
    THEN FiringWait(e, wf)
  ELSE e

\* entry of anim_state_crouch_firing / anim_state_reloading, up to the first yield
OneShotEntry(e, name, k) ==
  coro_yield(IF ~cf_sprite_is_playing(e, name) THEN cf_sprite_play(e, name) ELSE e, k)

\* their wait loop: while (state_timer > 0 && !will_finish) yield; then leave
OneShotWait(e, wf, k, to) ==
  IF e.state_timer > 0 /\ ~wf
    THEN coro_yield([e EXCEPT !.finish_checked = TRUE], k)
    ELSE coro_end([e EXCEPT !.current = to,
                            !.finish_checked = (e.state_timer > 0)])

anim_state_crouch_firing(e, wf) ==
  IF e.coroutine_state = 0 THEN OneShotEntry(e, "GunCrouchFire", 5)
  ELSE IF e.coroutine_state = YieldLabel(5) \/ e.coroutine_state = YieldLabel(6)
    THEN OneShotWait(e, wf, 6, PLAYER_STATE_CROUCHING)
  ELSE e

anim_state_reloading(e, wf) ==
  IF e.coroutine_state = 0 THEN OneShotEntry(e, "GunReload", 7)
  ELSE IF e.coroutine_state = YieldLabel(7) \/ e.coroutine_state = YieldLabel(8)
    THEN OneShotWait(e, wf, 8, PLAYER_STATE_IDLE)
  ELSE e

\* the coro_yield invocations of each handler, numbered in source order
HandlerYields(st) ==
  CASE st = PLAYER_STATE_IDLE -> {0}
    [] st = PLAYER_STATE_WALKING -> {1}
    [] st \in {PLAYER_STATE_CROUCHING, PLAYER_STATE_CROUCH_WALKING} -> {2}
    [] st = PLAYER_STATE_FIRING -> {3, 4}
    [] st = PLAYER_STATE_CROUCH_FIRING -> {5, 6}
    [] st = PLAYER_STATE_RELOADING -> {7, 8}
    [] OTHER -> {}

\* the case labels of the handler of state st, apart from `case 0`
ResumePoints(st) == {YieldLabel(k) : k \in HandlerYields(st)}

\* the switch of sys_update_animation without its default branch
Dispatch_NoFallback(e, vel, wf) ==
  CASE e.current = PLAYER_STATE_IDLE -> anim_state_idle(e)
    [] e.current = PLAYER_STATE_WALKING -> anim_state_walking(e)
    [] e.current \in {PLAYER_STATE_CROUCHING, PLAYER_STATE_CROUCH_WALKING} ->
         anim_state_crouching(e)
    [] e.current = PLAYER_STATE_FIRING -> anim_state_firing(e, vel, wf)
    [] e.current = PLAYER_STATE_CROUCH_FIRING -> anim_state_crouch_firing(e, wf)
    [] e.current = PLAYER_STATE_RELOADING -> anim_state_reloading(e, wf)
    [] OTHER -> e

\* the switch (ps->current) of sys_update_animation
Dispatch(e, vel, wf) ==
  CASE e.current = PLAYER_STATE_IDLE -> anim_state_idle(e)
    [] e.current = PLAYER_STATE_WALKING -> anim_state_walking(e)
    [] e.current \in {PLAYER_STATE_CROUCHING, PLAYER_STATE_CROUCH_WALKING} ->
         anim_state_crouching(e)
    [] e.current = PLAYER_STATE_FIRING -> anim_state_firing(e, vel, wf)
    [] e.current = PLAYER_STATE_CROUCH_FIRING -> anim_state_crouch_firing(e, wf)
    [] e.current = PLAYER_STATE_RELOADING -> anim_state_reloading(e, wf)
    [] OTHER -> IF ~cf_sprite_is_playing(e, "GunAim")
                  THEN cf_sprite_play(e, "GunAim") ELSE e

\* horizontal flip from the facing direction
FlipFor(fx) == IF fx >= 0 THEN 1 ELSE -1

\* the loop body of sys_update_animation for the second entity of the
\* array; its sprite was started with the player's and reports the same
OtherAfterAnimation(o, in, wf, adv) ==
  IF o.kind = "none" THEN o
  ELSE LET e == Dispatch([current |-> o.current, state_timer |-> 0,
                          coroutine_state |-> o.coroutine_state,
                          clip |-> o.clip, frame |-> o.frame,
                          played |-> <<>>, finish_checked |-> FALSE],
                         VelocityFor(o.current, in), wf)
       IN [o EXCEPT !.current = e.current,
                    !.coroutine_state = e.coroutine_state,
                    !.clip = e.clip,
                    !.frame = cf_sprite_update(e.clip, e.frame, adv)]

sys_update_animation ==
  /\ pc = "animation"
  /\ variant = "cursor"
  /\ \E wf \in BOOLEAN, adv \in BOOLEAN :
       LET e == Dispatch(Entity, velocity, wf) IN
         /\ current' = e.current
         /\ coroutine_state' = e.coroutine_state
         /\ clip' = e.clip
         /\ frame' = cf_sprite_update(e.clip, e.frame, adv)
         /\ played' = e.played
         /\ finish_checked' = e.finish_checked
         /\ anim_changed' = (e.current # current)
         /\ will_finish' = Reported(wf, clip, e.clip)
         /\ other' = OtherAfterAnimation(other, input, wf, adv)
  /\ scale_x' = FlipFor(facing)
  /\ reload_pending' = FALSE
  /\ ran' = TRUE
  /\ pc' = NextSystem(pc)
  /\ UNCHANGED <<asset, lib, ctx, variant, counter_base, library, state_ptr, input, previous,
                 state_timer, co, velocity, facing, position, eot_current,
                 eot_timer>>

---------------------------------------------------------------------------
\* Single-coroutine iteration (animation_system.c).  `co` is the place where
\* player_behavior_fn is suspended inside player_tick:
\*   "null"              ps->co.id == 0, no coroutine yet
\*   "top"               a player_tick followed by `continue` (or by the end of
\*                       the loop body): resumes at the top of while (true)
\*   "crouch_fire_wait"  inside while (!cf_sprite_will_finish) of shoot+crouch
\*   "walk_fire_wait"    inside while (cf_sprite_current_frame < 3)
\*   "fire_wait"         inside while (!cf_sprite_will_finish) of shoot
\*   "reload_wait"       inside while (!cf_sprite_will_finish) of reload

CoPlaces == {"null", "top", "crouch_fire_wait", "walk_fire_wait", "fire_wait",
             "reload_wait"}

\* facing as player_tick updates it: right wins over left
TickFacing(in, old) ==
  IF in.right THEN 1 ELSE IF in.left THEN -1 ELSE old

\* CoLeave that writes the exit state without starting its clip
CoLeave_NoPlay(e, to, name) ==
  [e |-> [e EXCEPT !.current = to], co |-> "top"]

\* leave a one-shot: write the state to return to, play its clip, yield at top
CoLeave(e, to, name) ==
  [e |-> cf_sprite_play([e EXCEPT !.current = to], name), co |-> "top"]

\* while (!cf_sprite_will_finish(sprite)) player_tick(co); then leave
CoWaitFinish(e, wf, place, to, name) ==
  LET e1 == [e EXCEPT !.finish_checked = TRUE] IN
  IF ~wf THEN [e |-> e1, co |-> place] ELSE CoLeave(e1, to, name)

\* while (cf_sprite_current_frame(sprite) < 3) player_tick(co); then leave
CoWaitFrame(e) ==
  LET e1 == [e EXCEPT !.finish_checked = TRUE] IN
  IF cf_sprite_current_frame(e1) < 3
    THEN [e |-> e1, co |-> "walk_fire_wait"]
    ELSE CoLeave(e1, PLAYER_STATE_IDLE, "GunAim")

\* CoLooping that returns from the behaviour function: the coroutine is dead
CoLooping_Returns(e, st, name) ==
  LET e1 == [e EXCEPT !.current = st] IN
  [e |-> IF ~cf_sprite_is_playing(e1, name) THEN cf_sprite_play(e1, name) ELSE e1,
   co |-> "null"]

\* a looping branch: write the state, play its clip unless it plays, yield at top
CoLooping(e, st, name) ==
  LET e1 == [e EXCEPT !.current = st] IN
  [e |-> IF ~cf_sprite_is_playing(e1, name) THEN cf_sprite_play(e1, name) ELSE e1,
   co |-> "top"]

\* one pass of the body of while (true), from its top to the next yield
CoTop(e, in, vel, wf) ==
  IF in.shoot /\ in.crouch
    THEN CoWaitFinish(
           cf_sprite_play([e EXCEPT !.current = PLAYER_STATE_CROUCH_FIRING],
                          "GunCrouchFire"),
           wf, "crouch_fire_wait", PLAYER_STATE_CROUCHING, "GunCrouch")
  ELSE IF in.shoot
    THEN LET e1 == cf_sprite_play([e EXCEPT !.current = PLAYER_STATE_FIRING],
                                  FireClip(vel))
         IN IF vel.x # 0
              THEN CoWaitFrame(e1)
              ELSE CoWaitFinish(e1, wf, "fire_wait", PLAYER_STATE_IDLE, "GunAim")
  ELSE IF in.reload
    THEN CoWaitFinish(
           cf_sprite_play([e EXCEPT !.current = PLAYER_STATE_RELOADING],
                          "GunReload"),
           wf, "reload_wait", PLAYER_STATE_IDLE, "GunAim")
  ELSE IF in.crouch THEN CoLooping(e, PLAYER_STATE_CROUCHING, "GunCrouch")
  ELSE IF vel.x # 0 THEN CoLooping(e, PLAYER_STATE_WALKING, "GunWalk")
  ELSE CoLooping(e, PLAYER_STATE_IDLE, "GunAim")

\* cf_coroutine_resume: run player_behavior_fn from `place` to its next yield
player_behavior_fn(place, e, in, vel, wf) ==
  CASE place = "crouch_fire_wait" ->
         CoWaitFinish(e, wf, "crouch_fire_wait", PLAYER_STATE_CROUCHING, "GunCrouch")
    [] place = "walk_fire_wait" -> CoWaitFrame(e)
    [] place = "fire_wait" ->
         CoWaitFinish(e, wf, "fire_wait", PLAYER_STATE_IDLE, "GunAim")
    [] place = "reload_wait" ->
         CoWaitFinish(e, wf, "reload_wait", PLAYER_STATE_IDLE, "GunAim")
    [] OTHER -> CoTop(e, in, vel, wf)

\* Resuming a coroutine created by code that has since been unloaded is
\* undefined: it may go on as before or take the process down.
StaleResume == reload_pending /\ co # "null"

sys_player_coroutine ==
  /\ pc = "animation"
  /\ variant = "coroutine"
  /\ \E wf \in BOOLEAN, adv \in BOOLEAN,
        crash \in (IF StaleResume THEN BOOLEAN ELSE {FALSE}) :
       \E r1 \in {player_behavior_fn(co, Entity, input, velocity, wf)} :
       \* the coroutine of the second entity of the array works on
       \* state->world.player as well; the sprite is taken to answer its
       \* queries as it answered the first coroutine's in this frame
       \E r \in {IF other.kind = "none" THEN r1
                 ELSE player_behavior_fn(
                        other.co,
                        [r1.e EXCEPT !.frame =
                           cf_sprite_update(r1.e.clip, r1.e.frame, adv)],
                        input, velocity, wf)} :
         /\ current' = r.e.current
         /\ clip' = r.e.clip
         /\ frame' = cf_sprite_update(r.e.clip, r.e.frame, adv)
         /\ played' = r.e.played
         /\ finish_checked' = r.e.finish_checked
         /\ anim_changed' = (r.e.current # current)
         /\ co' = r1.co
         /\ other' = IF other.kind = "none" THEN other
                     ELSE [other EXCEPT !.co = r.co]
         /\ will_finish' = Reported(wf, clip, r1.e.clip)
         /\ pc' = IF crash THEN "crashed" ELSE NextSystem(pc)
  /\ facing' = TickFacing(input, facing)
  /\ scale_x' = FlipFor(TickFacing(input, facing))
  /\ reload_pending' = FALSE
  /\ ran' = TRUE
  /\ UNCHANGED <<asset, lib, ctx, variant, counter_base, library, state_ptr, input, previous,
                 state_timer, coroutine_state, velocity, position,
                 eot_current, eot_timer>>

---------------------------------------------------------------------------
\* Hot reload (main.c on_update, game_hot_reload, world_hot_reload): runs
\* before the frame's update when the library file changed.  A successful
\* load swaps the library in and re-registers the system callbacks; no
\* component is touched.  After a failed load every entry point is null and
\* the update call that follows goes through a null pointer.

\* game_hot_reload that leaves the new library's pointer as loaded
game_hot_reload_Forget(game_state) == "null"

\* game_state(): the library's state pointer
game_state == state_ptr

\* game_hot_reload(game_state): the new library's state pointer is the one handed over
game_hot_reload(ptr) == ptr

\* a reload anywhere in the frame
AtTickBoundary_Anywhere == TRUE

\* on_update checks for a changed library before it calls update
AtTickBoundary == pc = "input"

hot_reload ==
  /\ AtTickBoundary
  /\ pc # "crashed"
  /\ library = "loaded"
  /\ \E ok \in BOOLEAN :
       /\ library' = IF ok THEN "loaded" ELSE "unloaded"
       /\ state_ptr' = IF ok THEN game_hot_reload(game_state) ELSE state_ptr
       /\ pc' = IF ok THEN pc ELSE "crashed"
       /\ reload_pending' = (ok \/ reload_pending)
  /\ UNCHANGED <<asset, lib, other, ctx, variant, counter_base, input, current, previous,
                 state_timer, coroutine_state, co, velocity, facing,
                 position, clip, frame, scale_x, will_finish, played,
                 finish_checked, anim_changed, ran, eot_current, eot_timer>>

---------------------------------------------------------------------------
\* Render (main.c: game_library.render() after cf_app_update; render_world
\* runs sys_render_sprites): draws the sprite at the transform's position and
\* writes no component.

sys_render_sprites ==
  /\ pc = "render"
  /\ pc' = NextSystem(pc)
  /\ UNCHANGED <<asset, lib, other, ctx, variant, counter_base, library, state_ptr, input, current,
                 previous, state_timer, coroutine_state, co, velocity,
                 facing, position, clip, frame, scale_x, will_finish,
                 played, finish_checked, anim_changed, ran, eot_current,
                 eot_timer, reload_pending>>

---------------------------------------------------------------------------

Next ==
  \/ sys_gather_input
  \/ sys_update_player_state
  \/ sys_update_player_movement
  \/ sys_apply_velocity
  \/ sys_update_animation
  \/ sys_player_coroutine
  \/ sys_render_sprites
  \/ hot_reload

Spec == Init /\ [][Next]_vars

\* The frame loop started from a tick boundary at which the resume position
\* of a running one-shot has just been invalidated: the cursor is 0 (there
\* is no coroutine) although the one-shot state was entered a frame ago and
\* its clip is playing.
InitReset ==
  /\ asset = NoAsset
  /\ lib = NoLibrary
  /\ variant \in {"cursor", "coroutine"}
  /\ counter_base \in (IF variant = "cursor" THEN CounterBases ELSE {0})
  /\ library = "loaded"
  /\ state_ptr = "heap"
  /\ pc = "input"
  /\ input = [up |-> FALSE, down |-> FALSE, left |-> FALSE, right |-> FALSE,
              crouch |-> FALSE, shoot |-> FALSE, reload |-> FALSE]
  /\ current \in Locking
  /\ previous = current
  /\ state_timer = 0
  /\ coroutine_state = 0
  /\ co = "null"
  /\ velocity = [x |-> 0, y |-> 0]
  /\ facing = 1
  /\ position = [x |-> 0, y |-> 0]
  /\ clip \in (CASE current = PLAYER_STATE_FIRING -> {"GunFire", "GunWalkFire"}
                 [] current = PLAYER_STATE_CROUCH_FIRING -> {"GunCrouchFire"}
                 [] current = PLAYER_STATE_RELOADING -> {"GunReload"})
  /\ frame \in (IF clip = "GunWalkFire"
                  THEN 0..(GUNWALKFIRE_SINGLE_SHOT_STOP_FRAME - 1) ELSE {0})
  /\ scale_x = 1
  /\ will_finish = FALSE
  /\ played = <<>>
  /\ finish_checked = FALSE
  /\ anim_changed = FALSE
  /\ ran = TRUE
  /\ eot_current = current
  /\ eot_timer = 0
  /\ reload_pending = TRUE
  /\ other = NoOther
  /\ ctx = NoContext

SpecReset == InitReset /\ [][Next]_vars

---------------------------------------------------------------------------
\* The animation dispatch as a function of ps->current: the frame is about
\* to run the animation system with the cursor at 0, for every value current
\* can hold and every clip the sprite can be playing

InitDispatch ==
  /\ asset = NoAsset
  /\ lib = NoLibrary
  /\ variant \in {"cursor", "coroutine"}
  /\ counter_base \in (IF variant = "cursor" THEN CounterBases ELSE {0})
  /\ library = "loaded"
  /\ state_ptr = "heap"
  /\ pc = "animation"
  /\ \E right \in BOOLEAN :
       input = [up |-> FALSE, down |-> FALSE, left |-> FALSE, right |-> right,
                crouch |-> FALSE, shoot |-> FALSE, reload |-> FALSE]
  \* the coroutine iteration has no dispatch on current: it starts as built
  /\ current \in (IF variant = "cursor"
                   THEN PlayerState \cup {PLAYER_STATE_COUNT}
                   ELSE {PLAYER_STATE_IDLE})
  /\ previous = current
  /\ state_timer = 0
  /\ coroutine_state = 0
  /\ co = "null"
  /\ velocity = VelocityFor(current, input)
  /\ facing = 1
  /\ position = [x |-> 0, y |-> 0]
  /\ clip \in (IF variant = "cursor" THEN Clips ELSE {"GunWalk"})
  /\ frame = 0
  /\ scale_x = 1
  /\ will_finish = FALSE
  /\ played = <<>>
  /\ finish_checked = FALSE
  /\ anim_changed = FALSE
  /\ ran = FALSE
  /\ eot_current = current
  /\ eot_timer = 0
  /\ reload_pending = FALSE
  /\ other = NoOther
  /\ ctx = NoContext

SpecDispatch == InitDispatch /\ [][Next]_vars

---------------------------------------------------------------------------
\* Cancellation: between two frames, while a one-shot was under way
\* (previous names it, the sprite plays its clip), something outside the
\* systems has written another state into current and 0 into the cursor,
\* and has dropped the coroutine handle

InitCancel ==
  /\ asset = NoAsset
  /\ lib = NoLibrary
  /\ variant \in {"cursor", "coroutine"}
  /\ counter_base \in (IF variant = "cursor" THEN CounterBases ELSE {0})
  /\ library = "loaded"
  /\ state_ptr = "heap"
  /\ pc = "input"
  /\ input = [up |-> FALSE, down |-> FALSE, left |-> FALSE, right |-> FALSE,
              crouch |-> FALSE, shoot |-> FALSE, reload |-> FALSE]
  /\ previous \in Locking
  /\ current \in PlayerState \ {previous, PLAYER_STATE_CROUCH_WALKING}
  /\ state_timer = 0
  /\ coroutine_state = 0
  /\ co = "null"
  /\ velocity = [x |-> 0, y |-> 0]
  /\ facing = 1
  /\ position = [x |-> 0, y |-> 0]
  /\ clip \in (CASE previous = PLAYER_STATE_FIRING -> {"GunFire", "GunWalkFire"}
                 [] previous = PLAYER_STATE_CROUCH_FIRING -> {"GunCrouchFire"}
                 [] previous = PLAYER_STATE_RELOADING -> {"GunReload"})
  /\ frame = 0
  /\ scale_x = 1
  /\ will_finish = FALSE
  /\ played = <<>>
  /\ finish_checked = FALSE
  /\ anim_changed = FALSE
  /\ ran = FALSE
  /\ eot_current = previous
  /\ eot_timer = 0
  /\ reload_pending = FALSE
  /\ other = NoOther
  /\ ctx = NoContext

SpecCancel == InitCancel /\ [][Next]_vars

---------------------------------------------------------------------------
\* Two entities: a second entity built like the player sits after it in the
\* array the systems iterate over

InitMany ==
  /\ asset = NoAsset
  /\ lib = NoLibrary
  /\ variant \in {"cursor", "coroutine"}
  /\ counter_base \in (IF variant = "cursor" THEN CounterBases ELSE {0})
  /\ library = "loaded"
  /\ state_ptr = "heap"
  /\ pc = "input"
  /\ input = [up |-> FALSE, down |-> FALSE, left |-> FALSE, right |-> FALSE,
              crouch |-> FALSE, shoot |-> FALSE, reload |-> FALSE]
  /\ current = PLAYER_STATE_IDLE
  /\ previous = PLAYER_STATE_IDLE
  /\ state_timer = 0
  /\ coroutine_state = 0
  /\ co = "null"
  /\ velocity = [x |-> 0, y |-> 0]
  /\ facing = 1
  /\ position = [x |-> 0, y |-> 0]
  /\ clip = "GunWalk"
  /\ frame = 0
  /\ scale_x = 1
  /\ will_finish = FALSE
  /\ played = <<>>
  /\ finish_checked = FALSE
  /\ anim_changed = FALSE
  /\ ran = FALSE
  /\ eot_current = PLAYER_STATE_IDLE
  /\ eot_timer = 0
  /\ reload_pending = FALSE
  /\ other = [kind |-> "entity", current |-> PLAYER_STATE_IDLE,
              coroutine_state |-> 0, co |-> "null", clip |-> "GunWalk",
              frame |-> 0]
  /\ ctx = NoContext

SpecMany == InitMany /\ [][Next]_vars

---------------------------------------------------------------------------
\* engine/coro.h: the coroutine of its usage note, followed by a coro_wait
\*
\*   coro_begin(ctx);
\*   ctx->counter = 0;
\*   while (ctx->counter < 3) {
\*     do_something();
\*     ctx->counter++;
\*     coro_yield(ctx);              // source line ctx.yield_line
\*   }
\*   coro_wait(ctx, condition);      // source line ctx.wait_line
\*   coro_end(ctx);

\* calls of the coroutine that are followed
MaxCalls == 8
\* iterations of the loop of the usage note
SequenceLimit == 3
\* source lines the two macro invocations may stand on
SourceLines == {25, 26, 27}

\* `(ctx)->coro = __LINE__;` of coro_yield and coro_wait
EngineYieldValue(line) == line

\* a case label one line further down than the invocation
EngineYieldLabel_NextLine(line) == line + 1

\* `case __LINE__:` of coro_yield and coro_wait: the macro is expanded on one
\* line, so both uses of __LINE__ give the line of the invocation
EngineYieldLabel(line) == line

\* coro_wait from its case label on: test the condition, return while it is
\* false, else fall through to coro_end
WaitTest(c, cond) ==
  LET d == [c EXCEPT !.evals = @ + 1] IN
  IF ~cond THEN d ELSE [d EXCEPT !.coro = -1]

\* the loop test, reached from `counter = 0` and from the case label of the
\* coro_yield
LoopTest(c, cond) ==
  IF c.counter < SequenceLimit
    THEN [c EXCEPT !.somethings = @ + 1, !.counter = @ + 1,
                   !.coro = EngineYieldValue(c.yield_line)]
    ELSE WaitTest([c EXCEPT !.coro = EngineYieldValue(c.wait_line)], cond)

\* one call of the coroutine: the switch on ctx->coro
my_sequence(c, cond) ==
  CASE c.coro = 0 -> LoopTest([c EXCEPT !.counter = 0, !.inits = @ + 1], cond)
    [] c.coro # 0 /\ c.coro = EngineYieldLabel(c.yield_line) -> LoopTest(c, cond)
    [] c.coro # 0 /\ c.coro # EngineYieldLabel(c.yield_line)
         /\ c.coro = EngineYieldLabel(c.wait_line) -> WaitTest(c, cond)
    [] OTHER -> c

InitCoro ==
  /\ asset = NoAsset
  /\ lib = NoLibrary
  /\ variant = "cursor"
  /\ counter_base = 0
  /\ library = "loaded"
  /\ state_ptr = "heap"
  /\ pc = "input"
  /\ input = [up |-> FALSE, down |-> FALSE, left |-> FALSE, right |-> FALSE,
              crouch |-> FALSE, shoot |-> FALSE, reload |-> FALSE]
  /\ current = PLAYER_STATE_IDLE
  /\ previous = PLAYER_STATE_IDLE
  /\ state_timer = 0
  /\ coroutine_state = 0
  /\ co = "null"
  /\ velocity = [x |-> 0, y |-> 0]
  /\ facing = 1
  /\ position = [x |-> 0, y |-> 0]
  /\ clip = "GunWalk"
  /\ frame = 0
  /\ scale_x = 1
  /\ will_finish = FALSE
  /\ played = <<>>
  /\ finish_checked = FALSE
  /\ anim_changed = FALSE
  /\ ran = FALSE
  /\ eot_current = PLAYER_STATE_IDLE
  /\ eot_timer = 0
  /\ reload_pending = FALSE
  /\ other = NoOther
  /\ \E y \in SourceLines, w \in SourceLines, c0 \in 0..SequenceLimit :
       /\ y < w
       /\ ctx = [kind |-> "context", coro |-> 0, counter |-> c0,
                 yield_line |-> y, wait_line |-> w, cond |-> FALSE, calls |-> 0,
                 inits |-> 0, somethings |-> 0, evals |-> 0]

\* the caller runs the coroutine once; the condition of the coro_wait is
\* whatever it is at that moment
call_my_sequence ==
  /\ ctx.kind = "context"
  /\ ctx.calls < MaxCalls
  /\ \E cond \in BOOLEAN :
       ctx' = [my_sequence(ctx, cond) EXCEPT !.calls = @ + 1, !.cond = cond]
  /\ UNCHANGED <<world_vars, asset, lib>>

\* coro_reset(ctx)
coro_reset ==
  /\ ctx.kind = "context"
  /\ ctx.coro # 0
  /\ ctx' = [ctx EXCEPT !.coro = 0]
  /\ UNCHANGED <<world_vars, asset, lib>>

NextCoro ==
  \/ call_my_sequence
  \/ coro_reset

SpecCoro == InitCoro /\ [][NextCoro]_vars

---------------------------------------------------------------------------
\* Properties

\* the frame's update has returned (or the process is gone)
EndOfFrame == pc \in {"input", "crashed"} /\ ran

C2_Lock ==
  [][ /\ (pc = "state" /\ current \in Locking) =>
             /\ current' = current
             /\ state_timer' = state_timer + Dt
             /\ coroutine_state' = coroutine_state
      /\ (current \in Locking /\ current' # current) => pc = "animation"
    ]_vars

\* the state step has run on a locked state while shoot and crouch arrived
C2_Witness ==
  /\ pc = "movement" /\ variant = "cursor"
  /\ previous = "Reloading" /\ current = "Reloading"
  /\ input.shoot /\ input.crouch
  /\ state_timer = eot_timer + Dt

C4_EndToEndFire ==
  [][ (variant = "cursor" /\ pc = "animation") =>
        /\ (eot_current = "Idle" /\ input.shoot /\ ~input.crouch /\ velocity.x = 0) =>
             (current = "Firing" /\ current' = "Firing" /\ clip' = "GunFire")
        /\ (eot_current = "Firing" /\ current = "Firing" /\ clip = "GunFire"
              /\ will_finish') => current' = "Idle"
        /\ (anim_changed /\ eot_current = "Idle" /\ current = "Idle") =>
             clip' = "GunAim"
    ]_vars

C6_EntryDelay ==
  (EndOfFrame /\ \E i \in DOMAIN played : played[i] \in OneShotClips) =>
    (~finish_checked /\ current \in Locking)

\* C7: in a frame after the entry frame of Firing, current becomes Idle
\* exactly when GunWalkFire shows a frame index >= 3, respectively exactly
\* when GunFire reports that it will finish; otherwise it stays Firing.
C7_FiringExit ==
  [][ (pc = "animation" /\ eot_current = "Firing" /\ current = "Firing") =>
        /\ current' \in {"Firing", "Idle"}
        /\ clip = "GunWalkFire" => (current' = "Idle" <=> frame >= 3)
        /\ clip = "GunFire" => (current' = "Idle" <=> will_finish')
    ]_vars

\* the dispatch of this frame is the first one of a Firing episode
EntersFiring ==
  \/ variant = "cursor" /\ current = "Firing" /\ eot_current # "Firing"
  \/ variant = "coroutine" /\ co \in {"null", "top"} /\ input.shoot /\ ~input.crouch

\* C8: the dispatch that enters Firing starts GunWalkFire if velocity.x # 0
\* in that frame and GunFire otherwise, whatever was played before; later
\* dispatches of the episode start no clip and leave the chosen one playing.
C8_FireClip ==
  [][ pc = "animation" =>
        /\ EntersFiring =>
             /\ played' # <<>>
             /\ played'[1] = (IF velocity.x # 0 THEN "GunWalkFire" ELSE "GunFire")
             /\ current' = "Firing" => clip' = played'[1]
        /\ (current = "Firing" /\ ~EntersFiring /\ current' = "Firing") =>
             (clip' = clip /\ played' = <<>>)
    ]_vars

\* mid-episode: GunFire was chosen at rest, and the player has started to move
C8_Witness ==
  /\ EndOfFrame /\ variant = "cursor"
  /\ current = "Firing" /\ eot_current = "Firing"
  /\ clip = "GunFire" /\ velocity.x # 0

\* C9, for the cursor iteration: the animation process changes current only
\* to end a one-shot, Firing -> Idle, CrouchFiring -> Crouching, Reloading ->
\* Idle, and after the entry frame CrouchFiring and Reloading end exactly in
\* the frame in which their clip reports that it will finish.
C9_OneShotEnd ==
  [][ (variant = "cursor" /\ pc = "animation") =>
        /\ current' # current =>
             \/ current = "Firing" /\ current' = "Idle"
             \/ current = "CrouchFiring" /\ current' = "Crouching"
             \/ current = "Reloading" /\ current' = "Idle"
        /\ (current \in {"CrouchFiring", "Reloading"} /\ eot_current = current) =>
             (current' # current <=> will_finish')
    ]_vars

\* C10: between a successful hot reload and the next run of the animation
\* process the saved resume position is invalid: the cursor is 0, or there
\* is no coroutine.
C10_ReloadInvalidates ==
  reload_pending =>
    /\ variant = "cursor" => coroutine_state = 0
    /\ variant = "coroutine" => co = "null"

\* C11: a reload attempt that fails leaves the host with the code it had:
\* the entry points the host calls through stay those of a loaded library.
C11_ReloadFailureNonFatal ==
  [][ library = "loaded" => library' = "loaded" ]_vars

\* C12, on the frame loop started with an invalidated cursor (SpecReset): a
\* dispatch that finds cursor 0 in Firing, CrouchFiring or Reloading evaluates
\* no finish condition and leaves current as it is; and a later dispatch at
\* which the clip's finish condition is met ends the one-shot.
C12_ResetMidOneShot ==
  [][ (variant = "cursor" /\ pc = "animation" /\ current \in Locking) =>
        /\ coroutine_state = 0 => (~finish_checked' /\ current' = current)
        /\ (coroutine_state # 0 /\
            IF clip = "GunWalkFire"
              THEN frame >= GUNWALKFIRE_SINGLE_SHOT_STOP_FRAME
              ELSE will_finish') => current' # current
    ]_vars

\* C13: at the end of every frame previous is the value current had at the
\* end of the frame before, so current # previous exactly at the end of the
\* frames in which current changed.
C13_Previous ==
  (variant = "cursor" /\ EndOfFrame) => previous = eot_current

\* the frame after a change: previous has caught up, the edge is gone
C13_Witness ==
  /\ variant = "cursor" /\ EndOfFrame
  /\ current = "Walking" /\ previous = "Walking" /\ eot_current = "Walking"
  /\ state_timer = 1

\* C14: every invocation of the animation process returns to the frame
\* loop, which goes on with the system that follows it.
C14_ResumeReturns ==
  [][ pc = "animation" => pc' = NextSystem(pc) ]_vars

\* the looping states and the clip each of them shows
LoopingStates == {PLAYER_STATE_IDLE, PLAYER_STATE_WALKING, PLAYER_STATE_CROUCHING}

LoopClip(st) ==
  CASE st = PLAYER_STATE_IDLE -> "GunAim"
    [] st = PLAYER_STATE_WALKING -> "GunWalk"
    [] st = PLAYER_STATE_CROUCHING -> "GunCrouch"

\* the dispatch of this frame is one for a looping state ...
InLoopTick ==
  \/ variant = "cursor" /\ current \in LoopingStates
  \/ variant = "coroutine" /\ co \in {"null", "top"} /\ ~input.shoot /\ ~input.reload

\* ... namely for this state
LoopTickState ==
  IF variant = "cursor" THEN current
  ELSE IF input.crouch THEN PLAYER_STATE_CROUCHING
  ELSE IF velocity.x # 0 THEN PLAYER_STATE_WALKING
  ELSE PLAYER_STATE_IDLE

\* C15: a dispatch for a looping state leaves current at that state; on the
\* first frame of a stay it plays the state's clip once if that clip is not
\* the one playing, and on every later frame of the stay it plays nothing.
C15_LoopingPlayOnce ==
  [][ (pc = "animation" /\ InLoopTick) =>
        /\ current' = LoopTickState
        /\ played' = IF (ran /\ eot_current = LoopTickState)
                          \/ clip = LoopClip(LoopTickState)
                       THEN <<>> ELSE <<LoopClip(LoopTickState)>>
        /\ (ran /\ eot_current = LoopTickState) => (played' = <<>> /\ current' = current)
    ]_vars

\* a later frame of a stay in Walking, nothing played
C15_Witness ==
  /\ EndOfFrame /\ variant = "cursor"
  /\ current = "Walking" /\ eot_current = "Walking" /\ state_timer > 0
  /\ clip = "GunWalk" /\ played = <<>>

\* C16 as the code orders the systems: input, state machine, movement,
\* physics, animation, and render after all of them, on every frame.
C16_SystemOrder ==
  [][ (variant = "cursor" /\ pc' # pc /\ pc' # "crashed") =>
        <<pc, pc'>> \in {<<"input", "state">>, <<"state", "movement">>,
                         <<"movement", "physics">>, <<"physics", "animation">>,
                         <<"animation", "render">>, <<"render", "input">>}
    ]_vars

\* C16 as stated: input, state machine, movement, animation, physics, render.
C16_SystemOrder_AsStated ==
  [][ (variant = "cursor" /\ pc' # pc /\ pc' # "crashed") =>
        <<pc, pc'>> \in {<<"input", "state">>, <<"state", "movement">>,
                         <<"movement", "animation">>, <<"animation", "physics">>,
                         <<"physics", "render">>, <<"render", "input">>}
    ]_vars

\* first frame: the position has been integrated, the animation has not run yet
C16_Witness ==
  /\ variant = "cursor" /\ pc = "animation" /\ ~ran
  /\ position.x = WalkSpeed * Dt /\ clip = "GunWalk" /\ current = "Walking"

C18_Facing ==
  [][ IF pc = "movement"
        THEN facing' = (IF input.right /\ ~input.left THEN 1
                        ELSE IF input.left /\ ~input.right THEN -1
                        ELSE facing)
        ELSE facing' = facing
    ]_vars

\* C19: a successful hot reload hands the state pointer of the old library
\* to the new one and changes no component of the player.
C19_ReloadPreservesData ==
  [][ (pc = "input" /\ pc' = "input") =>
        /\ state_ptr' = state_ptr
        /\ UNCHANGED <<current, previous, state_timer, coroutine_state, co,
                       input, facing, position, velocity, clip, frame, scale_x>>
    ]_vars

\* a reload has just happened in the middle of a walking shot
C19_Witness ==
  /\ pc = "input" /\ reload_pending /\ state_ptr = "heap"
  /\ current = "Firing" /\ clip = "GunWalkFire" /\ state_timer = 1
  /\ position.x # 0

\* C20: the library is swapped, or lost, only at the boundary before a
\* frame's update, never between two systems of a frame.
C20_ReloadAtBoundary ==
  [][ (library' # library \/ (reload_pending' /\ ~reload_pending)) =>
        pc = "input" ]_vars

\* a reload between two frames of a running game
C20_Witness ==
  /\ pc = "input" /\ reload_pending /\ ran /\ library = "loaded"
  /\ current = "Reloading" /\ state_timer = 1

\* C21: once a one-shot state has been entered, a dispatch at which its
\* clip's finish condition is met (GunWalkFire at frame >= 3, the other clips
\* reporting that they will finish) moves current out of Firing, CrouchFiring
\* or Reloading, and a dispatch at which it is not met leaves current locked.
C21_OneShotLiveness ==
  [][ (pc = "animation" /\ current \in Locking /\ eot_current = current) =>
        LET met == IF clip = "GunWalkFire"
                     THEN frame >= GUNWALKFIRE_SINGLE_SHOT_STOP_FRAME
                     ELSE will_finish'
        IN /\ met => current' \notin Locking
           /\ ~met => current' = current
    ]_vars

\* what the first frame of the cursor iteration leaves behind, given the
\* input of that frame and the sprite's answer wf
FirstFrameCursor(in, wf) ==
  LET cur == NextState(in) IN
  Dispatch([current |-> cur,
            state_timer |-> TimerAfterStateStep(cur, PLAYER_STATE_IDLE, 0),
            coroutine_state |-> CursorAfterStateStep(cur, PLAYER_STATE_IDLE, 0),
            clip |-> "GunWalk", frame |-> 0,
            played |-> <<>>, finish_checked |-> FALSE],
           VelocityFor(cur, in), wf)

\* C22, for sequences of length one: whichever iteration is built, the first
\* frame ends with the current, and has started the clips, that the cursor
\* iteration produces for the same input and the same sprite report.
C22_SameFirstFrame ==
  [][ (pc = "animation" /\ ~ran) =>
        \E wf \in BOOLEAN :
          /\ current' = FirstFrameCursor(input, wf).current
          /\ played' = FirstFrameCursor(input, wf).played
    ]_vars

C25_DispatchTotal ==
  [][ (variant = "cursor" /\ pc = "animation" /\ coroutine_state = 0) =>
        LET want ==
              CASE current = "Idle" -> "GunAim"
                [] current = "Walking" -> "GunWalk"
                [] current \in {"Crouching", "CrouchWalking"} -> "GunCrouch"
                [] current = "Firing" ->
                     IF velocity.x # 0 THEN "GunWalkFire" ELSE "GunFire"
                [] current = "CrouchFiring" -> "GunCrouchFire"
                [] current = "Reloading" -> "GunReload"
                [] OTHER -> "GunAim"
            playing ==
              clip = want \/
                (current = "Firing" /\ clip \in {"GunFire", "GunWalkFire"})
        IN /\ clip' = IF playing THEN clip ELSE want
           /\ played' = IF playing THEN <<>> ELSE <<want>>
           /\ current \notin PlayerState =>
                current' = current /\ coroutine_state' = coroutine_state
    ]_vars

\* a value outside the enumeration has been dispatched and GunAim started
C25_Witness ==
  /\ variant = "cursor" /\ pc = "render"
  /\ current = PLAYER_STATE_COUNT /\ coroutine_state = 0
  /\ clip = "GunAim" /\ played = <<"GunAim">>

\* C28: on the first frame after a cancellation into a locking state X, the
\* animation process leaves current = X, starts X's clip and evaluates no
\* finish condition.
C28_Cancel ==
  [][ (pc = "animation" /\ ~ran /\ eot_current \in Locking) =>
        /\ current' = eot_current
        /\ ~finish_checked'
        /\ played' = << CASE eot_current = "Firing" -> FireClip(velocity)
                          [] eot_current = "CrouchFiring" -> "GunCrouchFire"
                          [] eot_current = "Reloading" -> "GunReload" >>
    ]_vars

\* C29: the second entity, built like the player and given the same input,
\* shows the same current, cursor and clip as the player after every frame.
C29_Isolation ==
  (pc = "render" /\ other.kind = "entity") =>
    /\ other.current = current
    /\ other.coroutine_state = coroutine_state
    /\ other.clip = clip

\* C30: a call that finds the cursor on the line of the coro_yield continues
\* with the loop test (the counter is not initialised again; one more
\* iteration parks on the same line, or the coro_wait is reached); a call
\* that finds it on the line of the coro_wait evaluates the condition once
\* and either ends the coroutine or stays parked there; and the first call
\* passes the coro_wait without parking if the condition is true by then.
C30_EngineResume ==
  [][ (ctx.kind = "context" /\ ctx'.calls = ctx.calls + 1) =>
        /\ ctx.coro = ctx.yield_line =>
             /\ ctx'.inits = ctx.inits
             /\ IF ctx.counter < SequenceLimit
                  THEN /\ ctx'.counter = ctx.counter + 1
                       /\ ctx'.somethings = ctx.somethings + 1
                       /\ ctx'.coro = ctx.yield_line
                       /\ ctx'.evals = ctx.evals
                  ELSE /\ ctx'.counter = ctx.counter
                       /\ ctx'.somethings = ctx.somethings
                       /\ ctx'.evals = ctx.evals + 1
                       /\ ctx'.coro = IF ctx'.cond THEN -1 ELSE ctx.wait_line
        /\ ctx.coro = ctx.wait_line =>
             /\ ctx'.inits = ctx.inits
             /\ ctx'.counter = ctx.counter
             /\ ctx'.somethings = ctx.somethings
             /\ ctx'.evals = ctx.evals + 1
             /\ ctx'.coro = IF ctx'.cond THEN -1 ELSE ctx.wait_line
        /\ ctx.coro = 0 =>
             /\ ctx'.inits = ctx.inits + 1
             /\ ctx'.counter = 1
             /\ ctx'.coro = ctx.yield_line
        /\ ctx.coro = -1 =>
             ctx' = [ctx EXCEPT !.calls = @ + 1, !.cond = ctx'.cond]
    ]_vars

\* the coroutine yielded three times, waited over one call and then ended
C30_Witness ==
  /\ ctx.kind = "context" /\ ctx.coro = -1
  /\ ctx.inits = 1 /\ ctx.somethings = SequenceLimit /\ ctx.evals = 2
  /\ ctx.calls = SequenceLimit + 2

\* C31: whenever a handler of world.c has run, the cursor it leaves behind is
\* -1 or the case label of one of that handler's own yield points, so that
\* the next call resumes there.
C31_StoredValueIsLabel ==
  [][ (variant = "cursor" /\ pc = "animation") =>
        (coroutine_state' = -1 \/ coroutine_state' \in ResumePoints(current))
    ]_vars

\* C32: the cursor of world.c is 0 only before the handler has run or after a
\* reset: a dispatch never leaves it at 0.
C32_ZeroMeansNotStarted ==
  [][ (variant = "cursor" /\ pc = "animation") => coroutine_state' # 0 ]_vars

\* C34: position changes only in the physics step, and there by exactly
\* velocity * dt; position.y never changes, and position.x does not change
\* when velocity.x is 0.
C34_Euler ==
  [][ /\ IF pc = "physics"
           THEN position' = [x |-> position.x + velocity.x * Dt,
                             y |-> position.y + velocity.y * Dt]
           ELSE position' = position
      /\ position'.y = position.y
      /\ velocity.x = 0 => position'.x = position.x
    ]_vars

\* the player has walked one frame to the right and then crouched in place
C34_Witness ==
  /\ pc = "animation" /\ position.x = WalkSpeed * Dt /\ position.y = 0
  /\ current = "Crouching" /\ velocity.x = 0

\* C35: at the end of a frame on which current = previous the sprite plays
\* the clip of current.
C35_StateClip ==
  (EndOfFrame /\ current = previous) =>
    clip \in (CASE current = "Idle" -> {"GunAim"}
                [] current = "Walking" -> {"GunWalk"}
                [] current = "Crouching" -> {"GunCrouch"}
                [] current = "Firing" -> {"GunFire", "GunWalkFire"}
                [] current = "CrouchFiring" -> {"GunCrouchFire"}
                [] current = "Reloading" -> {"GunReload"}
                [] OTHER -> {})

\* the frame on which a Firing one-shot ended: Idle again, GunAim started
C35_Witness ==
  /\ EndOfFrame /\ pc = "input" /\ eot_current = "Firing"
  /\ current = "Idle" /\ previous = "Idle" /\ clip = "GunAim"

\* C36: at the end of a frame with current in a locking state the cursor is 0
\* or a resume point of that state's handler (never -1, never a value that
\* the handler's switch does not accept).
C36_NoStuckLock ==
  (EndOfFrame /\ current \in Locking) =>
    (coroutine_state = 0 \/ coroutine_state \in ResumePoints(current))

\* C37: while current is a locking state the state system leaves it alone
\* whatever the input, and the coroutine either stays in its wait or leaves
\* for the exit state of that wait; and whenever current becomes Firing,
\* CrouchFiring or Reloading it is the state that the priority chain gives
\* for the input of that same frame.
C37_NoBuffering ==
  [][ /\ (pc = "state" /\ current \in Locking) => current' = current
      /\ (variant = "coroutine" /\ pc = "animation"
          /\ co \in {"crouch_fire_wait", "walk_fire_wait", "fire_wait",
                     "reload_wait"}) =>
           current' \in {current,
                         IF co = "crouch_fire_wait"
                           THEN PLAYER_STATE_CROUCHING ELSE PLAYER_STATE_IDLE}
      /\ (current' \in Locking /\ current' # current) =>
           current' = NextState(input)
    ]_vars

\* the mouse button goes down in the middle of a reload, and nothing happens
C37_Witness ==
  /\ pc = "render" /\ input.shoot
  /\ eot_current = "Reloading" /\ current = "Reloading" /\ clip = "GunReload"

\* C38: in the movement step Crouching and CrouchFiring get velocity (0,0);
\* and on a frame that starts unlocked with left and right held and no
\* crouch, shoot or reload, neither the movement step nor the animation
\* process changes facing, and the frame ends in Walking with velocity.x = 0.
C38_LeftAndRight ==
  [][ /\ (pc = "movement" /\ current \in {"Crouching", "CrouchFiring"}) =>
           velocity' = [x |-> 0, y |-> 0]
      /\ (pc \in {"movement", "animation"} /\ eot_current \notin Locking
          /\ input.left /\ input.right
          /\ ~input.crouch /\ ~input.shoot /\ ~input.reload) =>
           /\ facing' = facing
           /\ pc = "animation" => (current' = "Walking" /\ velocity'.x = 0)
    ]_vars

\* C39: once created the coroutine is never dead or recreated: its handle
\* changes only when it is resumed, and a resume that finds it inside a
\* one-shot wait leaves it in that wait or takes it back to the top of the
\* loop.
C39_SameCoroutine ==
  [][ variant = "coroutine" =>
        IF pc = "animation"
          THEN /\ co' # "null"
               /\ co \in {"crouch_fire_wait", "walk_fire_wait", "fire_wait",
                          "reload_wait"} => co' \in {co, "top"}
          ELSE co' = co
    ]_vars

\* the coroutine has been in the wait of a reload for two frames
C39_Witness ==
  /\ variant = "coroutine" /\ pc = "render"
  /\ eot_current = "Reloading" /\ current = "Reloading" /\ co = "reload_wait"

\* ---------------------------------------------------------------------------
\* engine/asset.c : loading a sprite file by path
\* ---------------------------------------------------------------------------

\* the world as make_player leaves it; the steps below do not touch it
WorldAtRest ==
  /\ variant = "cursor"
  /\ counter_base = 0
  /\ library = "loaded"
  /\ state_ptr = "heap"
  /\ pc = "input"
  /\ input = [up |-> FALSE, down |-> FALSE, left |-> FALSE, right |-> FALSE,
              crouch |-> FALSE, shoot |-> FALSE, reload |-> FALSE]
  /\ current = PLAYER_STATE_IDLE
  /\ previous = PLAYER_STATE_IDLE
  /\ state_timer = 0
  /\ coroutine_state = 0
  /\ co = "null"
  /\ velocity = [x |-> 0, y |-> 0]
  /\ facing = 1
  /\ position = [x |-> 0, y |-> 0]
  /\ clip = "GunWalk"
  /\ frame = 0
  /\ scale_x = 1
  /\ will_finish = FALSE
  /\ played = <<>>
  /\ finish_checked = FALSE
  /\ anim_changed = FALSE
  /\ ran = FALSE
  /\ eot_current = PLAYER_STATE_IDLE
  /\ eot_timer = 0
  /\ reload_pending = FALSE
  /\ other = NoOther
  /\ ctx = NoContext

\* a path is a sequence of characters; NullPath is the null pointer
NullPath == <<"null pointer">>
AssetPaths ==
  { <<"s", ".", "a", "s", "e">>,
    <<"s", ".", "a", "s", "e", "p", "r", "i", "t", "e">>,
    <<"s", ".", "p", "n", "g">>,
    <<"s", ".", "t", "x", "t">>,
    <<"s">>,
    <<"p", "n", "g">>,
    <<"s", ".", "p", "n", "g", ".", "b", "a", "k">>,
    <<"s", ".", "a", "s", "e", ".", "p", "n", "g">>,
    <<"s", ".", "p", "n", "g", ".", "a", "s", "e">>,
    <<"s", ".">>,
    <<"t", ".", "p", "n", "g">> }

EXT_ASEPRITE == <<".", "a", "s", "e", "p", "r", "i", "t", "e">>
EXT_ASE == <<".", "a", "s", "e">>
EXT_PNG == <<".", "p", "n", "g">>

\* position of the last '.', 0 when there is none
LastDot(p) ==
  IF \E i \in 1..Len(p) : p[i] = "."
    THEN CHOOSE i \in 1..Len(p) : p[i] = "." /\ \A j \in (i + 1)..Len(p) : p[j] # "."
    ELSE 0

\* the extension of a path: from its last '.' to its end
spext(p) == IF LastDot(p) = 0 THEN <<>> ELSE SubSeq(p, LastDot(p), Len(p))

\* a mistaken comparison: the extension is looked for anywhere in the path
spext_equ_Anywhere(p, ext) ==
  \E i \in 1..Len(p) : i + Len(ext) - 1 <= Len(p) /\ SubSeq(p, i, i + Len(ext) - 1) = ext

spext_equ(p, ext) == spext(p) = ext

cf_sprite_defaults == [name |-> "null", decoder |-> "none"]

\* the Aseprite decoder gives a sprite without a name when it cannot load the file
cf_make_sprite(decodable) ==
  [name |-> IF decodable THEN "sprite" ELSE "null", decoder |-> "aseprite"]

\* the image decoder reports through its result
cf_make_easy_sprite_from_png(decodable) ==
  [sprite |-> [name |-> IF decodable THEN "easy_sprite" ELSE "null", decoder |-> "png"],
   result |-> IF decodable THEN [ok |-> TRUE, message |-> ""]
                           ELSE [ok |-> FALSE, message |-> "png decoder error"]]

cf_result_error(m) == [ok |-> FALSE, message |-> m]
cf_result_success == [ok |-> TRUE, message |-> ""]

\* asset_load_sprite(filepath, out_sprite): the result and what *out_sprite holds
asset_load_sprite(filepath, decodable) ==
  IF filepath = NullPath
    THEN [result |-> cf_result_error("filepath is NULL"), out_sprite |-> cf_sprite_defaults]
  ELSE IF spext_equ(filepath, EXT_ASEPRITE) \/ spext_equ(filepath, EXT_ASE)
    THEN LET sp == cf_make_sprite(decodable)
         IN  IF sp.name = "null"
               THEN [result |-> cf_result_error("Failed to load Aseprite sprite"),
                     out_sprite |-> sp]
               ELSE [result |-> cf_result_success, out_sprite |-> sp]
  ELSE IF spext_equ(filepath, EXT_PNG)
    THEN LET r == cf_make_easy_sprite_from_png(decodable)
         IN  [result |-> r.result, out_sprite |-> r.sprite]
  ELSE [result |-> cf_result_error("Unsupported sprite file format"),
        out_sprite |-> cf_sprite_defaults]

\* what the caller's sprite may hold before the call
PriorSprites ==
  { cf_sprite_defaults,
    [name |-> "old", decoder |-> "aseprite"],
    [name |-> "old", decoder |-> "png"],
    [name |-> "other", decoder |-> "aseprite"] }

InitAsset ==
  /\ WorldAtRest
  /\ lib = NoLibrary
  /\ \E fp \in AssetPaths \cup {NullPath}, d \in BOOLEAN, sp \in PriorSprites :
       asset = [kind |-> "call", filepath |-> fp, decodable |-> d,
                out_sprite |-> sp, result |-> [ok |-> FALSE, message |-> "not returned"]]

call_asset_load_sprite ==
  /\ asset.kind = "call"
  /\ \E r \in {asset_load_sprite(asset.filepath, asset.decodable)} :
       asset' = [asset EXCEPT !.kind = "returned", !.result = r.result,
                              !.out_sprite = r.out_sprite]
  /\ UNCHANGED <<world_vars, ctx, lib>>

NextAsset == call_asset_load_sprite

SpecAsset == InitAsset /\ [][NextAsset]_vars

\* the path ends with the given extension
EndsWith(p, ext) ==
  /\ p # NullPath
  /\ Len(p) >= Len(ext)
  /\ SubSeq(p, Len(p) - Len(ext) + 1, Len(p)) = ext

\* C33: asset_load_sprite always returns: an error with a message for a null
\* path, for a path whose extension is none of .ase, .aseprite, .png, and for an
\* .ase/.aseprite file the decoder gives no name for; success only for a
\* decodable file of one of the three extensions, the decoder being chosen by
\* the extension alone; for a null path or an unsupported extension the
\* caller's sprite is the default sprite.
C33_AssetLoad ==
  asset.kind = "returned" =>
    LET fp == asset.filepath
        ase == EndsWith(fp, EXT_ASE) \/ EndsWith(fp, EXT_ASEPRITE)
        png == EndsWith(fp, EXT_PNG)
    IN  /\ asset.result.ok <=> ((ase \/ png) /\ asset.decodable)
        /\ ~asset.result.ok => asset.result.message # ""
        /\ ase => asset.out_sprite.decoder = "aseprite"
        /\ png => asset.out_sprite.decoder = "png"
        /\ ~(ase \/ png) => asset.out_sprite = cf_sprite_defaults
        /\ (ase /\ ~asset.decodable) =>
             asset.result = cf_result_error("Failed to load Aseprite sprite")
        /\ fp = NullPath => asset.result = cf_result_error("filepath is NULL")

C33_Witness ==
  /\ asset.kind = "returned"
  /\ asset.filepath = <<"s", ".", "p", "n", "g", ".", "b", "a", "k">>
  /\ asset.decodable
  /\ ~asset.result.ok
  /\ asset.out_sprite = cf_sprite_defaults

\* ---------------------------------------------------------------------------
\* platform/platform_cute.c and app/main.c : detecting a rebuilt game library
\* ---------------------------------------------------------------------------

MaxMtime == 3
MaxTicks == 4

\* SDL_PLATFORM_WIN32 is defined or not
Platforms == {"posix", "win32"}

\* a time later than every modification time of the library file
CopyTime == MaxMtime + 1

\* GameLibrary.path after a load: the copy under SDL_PLATFORM_WIN32
LoadedPath(platform) == IF platform = "win32" THEN "copy" ELSE "original"

\* modification time SDL_GetPathInfo reports for GameLibrary.path
PathMtime(l) == IF l.path = "copy" THEN l.copy_mtime ELSE l.file_mtime

\* platform_game_library_has_changed; stat_ok: SDL_GetPathInfo succeeded
platform_game_library_has_changed(l, stat_ok) ==
  stat_ok /\ PathMtime(l) # l.recorded

platform_unload_game_library(l) == [l EXCEPT !.ok = FALSE]

\* modification times SDL_CopyFile may leave on the copy: the original's, or
\* the time of the copy
CopiedMtimes(l) == {l.file_mtime, CopyTime}

\* platform_load_game_library: outcome is where it returns; the static
\* path_info is written by the stat of the original path before anything else
platform_load_game_library(l, outcome, copied) ==
  IF outcome = "stat_failed" THEN [l EXCEPT !.ok = FALSE]
  ELSE IF outcome = "copy_failed" /\ l.platform = "win32"
    THEN [l EXCEPT !.ok = FALSE, !.recorded = l.file_mtime]
  ELSE [l EXCEPT !.ok = (outcome = "ok"),
                 !.recorded = l.file_mtime,
                 !.copy_mtime = IF l.platform = "win32" THEN copied ELSE @,
                 !.path = IF outcome = "ok" THEN LoadedPath(l.platform) ELSE @]

LoadOutcomes == {"ok", "stat_failed", "copy_failed", "load_failed"}

\* main: the library is loaded once before the first tick
InitHost ==
  /\ WorldAtRest
  /\ asset = NoAsset
  /\ \E p \in Platforms, copied \in {0, CopyTime} :
       lib = [kind |-> "host", platform |-> p, file_mtime |-> 0,
              copy_mtime |-> IF p = "win32" THEN copied ELSE 0,
              path |-> LoadedPath(p), recorded |-> 0, ok |-> TRUE,
              crashed |-> FALSE, tick |-> 0, examined |-> FALSE,
              attempted |-> FALSE, reloaded_counter |-> 0]

\* the build writes a new library file
modify_library_file ==
  /\ lib.kind = "host"
  /\ lib.file_mtime < MaxMtime
  /\ lib' = [lib EXCEPT !.file_mtime = @ + 1]
  /\ UNCHANGED <<world_vars, ctx, asset>>

\* on_update: one tick of the host
on_update ==
  /\ lib.kind = "host"
  /\ ~lib.crashed
  /\ lib.tick < MaxTicks
  /\ \E stat_ok \in BOOLEAN, outcome \in LoadOutcomes, copied \in CopiedMtimes(lib) :
       LET changed == platform_game_library_has_changed(lib, stat_ok)
           loaded == platform_load_game_library(platform_unload_game_library(lib),
                                                outcome, copied)
           after == IF ~changed THEN lib
                    ELSE IF loaded.ok
                      THEN [loaded EXCEPT !.reloaded_counter = @ + 1]
                      \* *game_library keeps its unloaded fields
                      ELSE [platform_unload_game_library(lib)
                              EXCEPT !.recorded = loaded.recorded,
                                     !.copy_mtime = loaded.copy_mtime]
       IN  lib' = [after EXCEPT !.tick = lib.tick + 1,
                                !.examined = stat_ok,
                                !.attempted = changed,
                                \* update() is called through a null pointer
                                !.crashed = ~after.ok]
  /\ UNCHANGED <<world_vars, ctx, asset>>

NextHost == modify_library_file \/ on_update

SpecHost == InitHost /\ [][NextHost]_vars

\* C40: on every tick a reload is attempted exactly when the library file
\* could be examined and its modification time differs from the one recorded
\* at the most recent load: no reload while the file is not modified again,
\* and a reload attempt on the tick after every modification.
C40_ChangeDetection ==
  [][ (lib.kind = "host" /\ lib'.tick = lib.tick + 1) =>
        (lib'.attempted <=> (lib'.examined /\ lib.file_mtime # lib.recorded)) ]_vars

===========================================================================
